---- MODULE Spec2Model ----
(***************************************************************************)
(* s5-commander (main.go): a polling loop around the s5cmd copy tool.      *)
(* Each tick runs processFiles: runS5cmd writes the tool's combined output *)
(* to a sink file, parseAndCleanup reads it line by line and removes the   *)
(* local source of every successfully copied file, and main folds the      *)
(* returned Summary into accumulatedSummary, reports every runsPerLog      *)
(* ticks and reports once more on SIGINT/SIGTERM.                          *)
(*                                                                         *)
(* Six specifications share the operators below:                           *)
(*   SpecPF     one processFiles call on an input drawn in InitPF;         *)
(*   Spec       the select loop of main with the signal goroutine and      *)
(*              ticker, started with a valid configuration;                *)
(*   SpecStart  main from its first statement, on flags and environment    *)
(*              drawn in InitStart;                                        *)
(*   SpecAcc    the accumulation statements on Summaries drawn in InitAcc; *)
(*   SpecSrc    the source glob runS5cmd builds from a folder prefix and a *)
(*              path suffix drawn in InitSrc;                              *)
(*   SpecLive   the select loop under fairness.                            *)
(***************************************************************************)
EXTENDS Integers, Sequences, FiniteSets, TLC

VARIABLES
    pc,            \* position of main: "select", "running", "done"; "call"/"returned" in SpecPF
    cancelled,     \* ctx.Done() is closed (cancel() was called)
    tickPending,   \* ticker.C (capacity 1) holds a tick
    interval,      \* actualProcessInterval, in seconds
    netdataEnabled,\* actualNetdataEnabled
    accumulatedSummary,
    runCounter,
    exists,        \* the local files that exist
    in,            \* SpecPF: the environment of the call (tool output, removal permissions, I/O failures); Spec draws it inside CycleComplete
    ret,           \* what processFiles returned: [summary, err]
    pac,           \* what parseAndCleanup returned: [called, summary, err]
    removed,       \* the local files removed during the last cycle
    totalRuns,     \* history: cycles completed since start
    session,       \* history: sums of every returned Summary since start
    atReset,       \* history: value of session at the last periodic reset
    resets,        \* history: periodic resets performed
    periodicLogs,  \* history: "Summary over last ..." lines logged
    sigRun,        \* history: index of the cycle in flight when the signal arrived (0: none)
    finalSummary,  \* the "Final summary" line logged at shutdown, or NoReport
    finalMetrics,  \* the session metrics handed to sendShutdownMetrics, or NoReport
    exitCode,      \* process exit status, -1 while running
    started,       \* history: cycles started since start
    sinkFiles,     \* number of sink files left in the working directory
    conf,          \* the command line flags and the environment of the process
    actual,        \* the actual* values main resolves from them and hasAwsEnvCreds
    cmd,           \* the exec.Cmd built by the last runS5cmd call, or NoCmd
    runLimit,      \* most cycles this behaviour lets start
    operands,      \* SpecAcc: three run Summaries
    folds,         \* SpecAcc: the accumulator after folding them, per order
    runMetrics,    \* the per-run metrics sendToNetdata wrote for the last cycle, or NoReport
    events,        \* what the last cycle did, in the order in which it happened
    pathArgs,      \* SpecSrc: folderPrefix and pathSuffix as runS5cmd receives them
    srcPath        \* SpecSrc: the suffix after the strip and srcPath, or NoSrcPath

vars == <<pc, cancelled, tickPending, interval, netdataEnabled, accumulatedSummary,
          runCounter, exists, in, ret, pac, removed, totalRuns, session, atReset,
          resets, periodicLogs, sigRun, finalSummary, finalMetrics, exitCode,
          started, sinkFiles, conf, actual, cmd, runLimit, operands, folds,
          runMetrics, events, pathArgs, srcPath>>

-----------------------------------------------------------------------------
(* Bounds of the model *)

\* most JSON values (terminated lines plus the final fragment) in one sink, SpecPF
MaxLines == 2
\* most cycles the loop specification lets start
MaxRuns == 5
\* most paths in the FilesFailed list of a Summary drawn in SpecAcc
MaxFailed == 1
\* most cycles the startup specification lets start
StartRuns == 1
\* most cycles the specification with fairness lets start
LiveRuns == 3
\* most characters in a folder prefix and in a path suffix drawn in SpecSrc
MaxPathLen == 3

-----------------------------------------------------------------------------
(* Data *)

\* local paths the tool may name; the first lies under folderPrefix "/tmp/", the second does not
Paths == {"/tmp/a.gz", "/var/b.gz"}

SizeOf(p) == IF p = "/tmp/a.gz" THEN 1024 ELSE 3

\* values of the folder-prefix flag: its default and another directory
FolderPrefixes == {"/tmp/", "/var/"}

\* the path p lies under the directory folderPrefix
UnderPrefix(p, folderPrefix) ==
    \/ p = "/tmp/a.gz" /\ folderPrefix = "/tmp/"
    \/ p = "/var/b.gz" /\ folderPrefix = "/var/"

\* one JSON object of the tool's protocol, as the bytes of a line
Rec(op, ok, src, ty) ==
    [kind |-> "record", operation |-> op, success |-> ok, source |-> src,
     type |-> ty, size |-> SizeOf(src)]

\* a copied file under each path, a failed copy, a copied directory, and a
\* successful file record under two other operation tags
Records ==
    {Rec("cp", TRUE, "/tmp/a.gz", "file"),
     Rec("cp", TRUE, "/var/b.gz", "file"),
     Rec("cp", FALSE, "/tmp/a.gz", "file"),
     Rec("cp", TRUE, "/var/b.gz", "directory"),
     Rec("copy", TRUE, "/tmp/a.gz", "file"),
     Rec("mv", TRUE, "/var/b.gz", "file")}

\* words of an error message; strings.Contains looks for the first one
NoMatchText == "no match found for"
Messages == { <<"ERROR", NoMatchText, "\"/tmp/**/*.gz\"">>, <<"access denied">> }

Envelopes == [kind : {"envelope"}, error : Messages]

\* a line that is no JSON value, and a line of white space only
Garbage == [kind |-> "garbage"]
Blank == [kind |-> "blank"]

Lines == Records \cup Envelopes \cup {Garbage, Blank}

NoLine == [kind |-> "none"]

Summary(t, d, b, f) ==
    [FilesTransferred |-> t, FilesDeleted |-> d, TotalBytes |-> b, FilesFailed |-> f]

ZeroSummary == Summary(0, 0, 0, <<>>)

ZeroJobResult ==
    [Operation |-> "", Success |-> FALSE, Source |-> "", Type |-> "", Size |-> 0]

-----------------------------------------------------------------------------
(* Decoding *)

\* json.Unmarshal(line, &result) for a JobResult: unknown keys are ignored and
\* missing keys leave the zero value, so an error envelope decodes to the zero record
UnmarshalJobResult(line) ==
    IF line.kind = "record"
    THEN [ok |-> TRUE,
          result |-> [Operation |-> line.operation, Success |-> line.success,
                      Source |-> line.source, Type |-> line.type, Size |-> line.size]]
    ELSE IF line.kind = "envelope"
    THEN [ok |-> TRUE, result |-> ZeroJobResult]
    ELSE [ok |-> FALSE, result |-> ZeroJobResult]

\* the JSON values and non-JSON text in the whole sink, white space dropped
SinkValues(lines, frag) ==
    SelectSeq(lines \o (IF frag = NoLine THEN <<>> ELSE <<frag>>),
              LAMBDA l : l.kind # "blank")

\* json.Unmarshal(data, &s5Error) on the whole content: exactly one JSON value,
\* white space around it allowed; a record has no "error" key
UnmarshalS5Error(lines, frag) ==
    LET vs == SinkValues(lines, frag) IN
    IF Len(vs) = 1 /\ vs[1].kind = "envelope" THEN [ok |-> TRUE, Error |-> vs[1].error]
    ELSE IF Len(vs) = 1 /\ vs[1].kind = "record" THEN [ok |-> TRUE, Error |-> <<>>]
    ELSE [ok |-> FALSE, Error |-> <<>>]

\* strings.Contains(s, "no match found for")
ContainsNoMatch(msg) == \E i \in 1..Len(msg) : msg[i] = NoMatchText

-----------------------------------------------------------------------------
(* processFiles and what it calls *)

Outcomes == {"ok", "exit", "create", "uuid"}

\* runS5cmd returned an error: os.Create failed or cmd.Run reported failure
RunS5cmdFailed(i) == i.outcome \in {"exit", "create"}

\* the sink file exists once os.Create succeeded
SinkCreated(i) == i.outcome \in {"ok", "exit"}

\* variants of Qualifies that drop one of the three tests
QualifiesIgnoringSuccess(result) ==
    result.Operation = "cp" /\ result.Type = "file"

QualifiesAnyType(result) ==
    result.Operation = "cp" /\ result.Success

\* the condition of parseAndCleanup that makes a decoded record actionable
Qualifies(result) ==
    result.Operation = "cp" /\ result.Success /\ result.Type = "file"

\* variant of RemoveOk in which a removal is never refused
RemoveOkIgnoringPermission(p, ex, locked) == p \in ex

\* os.Remove(p) succeeds on an existing file the process may unlink
RemoveOk(p, ex, locked) == p \in ex /\ p \notin locked

\* variant of ReconcileRecord that counts the deletion before attempting it
ReconcileRecordCountsEarly(st, result, locked) ==
    LET s == st.summary
        counted == [s EXCEPT !.FilesTransferred = @ + 1,
                             !.TotalBytes = @ + result.Size,
                             !.FilesDeleted = @ + 1]
    IN  IF RemoveOk(result.Source, st.exists, locked)
        THEN [st EXCEPT !.summary = counted, !.exists = @ \ {result.Source}]
        ELSE [st EXCEPT !.summary =
                 [counted EXCEPT !.FilesFailed = Append(@, result.Source)]]

\* variant of ReconcileRecord that leaves TotalBytes alone
ReconcileRecordSkipsBytes(st, result, locked) ==
    LET s == st.summary
        counted == [s EXCEPT !.FilesTransferred = @ + 1]
    IN  IF RemoveOk(result.Source, st.exists, locked)
        THEN [st EXCEPT !.summary = [counted EXCEPT !.FilesDeleted = @ + 1],
                        !.exists = @ \ {result.Source}]
        ELSE [st EXCEPT !.summary =
                 [counted EXCEPT !.FilesFailed = Append(@, result.Source)]]

\* the body of parseAndCleanup's if statement for one qualifying record
ReconcileRecord(st, result, locked) ==
    LET s == st.summary
        counted == [s EXCEPT !.FilesTransferred = @ + 1,
                             !.TotalBytes = @ + result.Size]
    IN  IF RemoveOk(result.Source, st.exists, locked)
        THEN [st EXCEPT !.summary = [counted EXCEPT !.FilesDeleted = @ + 1],
                        !.exists = @ \ {result.Source}]
        ELSE [st EXCEPT !.summary =
                 [counted EXCEPT !.FilesFailed = Append(@, result.Source)]]

\* one iteration of parseAndCleanup's loop on a newline-terminated line
ReconcileLine(st, line, locked) ==
    LET u == UnmarshalJobResult(line) IN
    IF ~u.ok THEN st
    ELSE IF Qualifies(u.result) THEN ReconcileRecord(st, u.result, locked)
    ELSE st

\* variant of ParseLoop that returns the decoding error of a line
RECURSIVE ParseLoopStopsAtBadLine(_, _, _, _, _)
ParseLoopStopsAtBadLine(lines, k, st, locked, failAt) ==
    IF k = failAt THEN [st EXCEPT !.err = TRUE]
    ELSE IF k > Len(lines) THEN st
    ELSE IF ~UnmarshalJobResult(lines[k]).ok THEN [st EXCEPT !.err = TRUE]
    ELSE ParseLoopStopsAtBadLine(lines, k + 1, ReconcileLine(st, lines[k], locked),
                                 locked, failAt)

\* parseAndCleanup's loop from its k-th ReadBytes call on: a read error returns
\* what was summed so far with the error, io.EOF (also with an unterminated
\* final fragment in hand) ends the loop
RECURSIVE ParseLoop(_, _, _, _, _)
ParseLoop(lines, k, st, locked, failAt) ==
    IF k = failAt THEN [st EXCEPT !.err = TRUE]
    ELSE IF k > Len(lines) THEN st
    ELSE ParseLoop(lines, k + 1, ReconcileLine(st, lines[k], locked), locked, failAt)

\* variant of ParseAndCleanup that passes over a record whose source does not
\* lie under the folder prefix
ParseAndCleanupUnderPrefix(folderPrefix, lines, ex, locked, failAt) ==
    ParseLoop([k \in DOMAIN lines |->
                  IF lines[k].kind = "record" /\ ~UnderPrefix(lines[k].source, folderPrefix)
                  THEN Blank ELSE lines[k]],
              1, [summary |-> ZeroSummary, exists |-> ex, err |-> FALSE],
              locked, failAt)

\* parseAndCleanup: the pass over the sink; folderPrefix is received and not used
ParseAndCleanup(folderPrefix, lines, ex, locked, failAt) ==
    ParseLoop(lines, 1, [summary |-> ZeroSummary, exists |-> ex, err |-> FALSE],
              locked, failAt)

\* variant of checkForNoMatchError that tests the start of the message only
CheckForNoMatchErrorPrefix(i) ==
    IF ~SinkCreated(i) THEN FALSE
    ELSE IF i.lines = <<>> /\ i.frag = NoLine THEN FALSE
    ELSE LET u == UnmarshalS5Error(i.lines, i.frag) IN
         IF ~u.ok THEN FALSE ELSE Len(u.Error) > 0 /\ u.Error[1] = NoMatchText

\* variant of checkForNoMatchError that decodes the first value of the sink only
CheckForNoMatchErrorFirstValue(i) ==
    IF ~SinkCreated(i) THEN FALSE
    ELSE IF i.lines = <<>> /\ i.frag = NoLine THEN FALSE
    ELSE LET vs == SinkValues(i.lines, i.frag) IN
         IF vs = <<>> \/ vs[1].kind # "envelope" THEN FALSE
         ELSE ContainsNoMatch(vs[1].error)

\* checkForNoMatchError: false without a sink file or with an empty one
CheckForNoMatchError(i) ==
    IF ~SinkCreated(i) THEN FALSE
    ELSE IF i.lines = <<>> /\ i.frag = NoLine THEN FALSE
    ELSE LET u == UnmarshalS5Error(i.lines, i.frag) IN
         IF ~u.ok THEN FALSE ELSE ContainsNoMatch(u.Error)

NotCalled == [called |-> FALSE, summary |-> ZeroSummary, err |-> FALSE]

\* variant of ProcessFiles that returns what was summed before a read error
ProcessFilesKeepsPartial(i, ex) ==
    IF i.outcome = "uuid"
    THEN [summary |-> ZeroSummary, err |-> TRUE, exists |-> ex, pac |-> NotCalled]
    ELSE IF RunS5cmdFailed(i)
    THEN IF CheckForNoMatchError(i)
         THEN [summary |-> ZeroSummary, err |-> FALSE, exists |-> ex, pac |-> NotCalled]
         ELSE [summary |-> ZeroSummary, err |-> TRUE, exists |-> ex, pac |-> NotCalled]
    ELSE LET r == ParseAndCleanup(actual.FolderPrefix, i.lines, ex, i.locked, i.failAt) IN
         [summary |-> r.summary,
          err |-> r.err,
          exists |-> r.exists,
          pac |-> [called |-> TRUE, summary |-> r.summary, err |-> r.err]]

\* variant of ProcessFiles whose pass also reconciles an unterminated last line
ProcessFilesReadsFragment(i, ex) ==
    IF i.outcome = "uuid"
    THEN [summary |-> ZeroSummary, err |-> TRUE, exists |-> ex, pac |-> NotCalled]
    ELSE IF RunS5cmdFailed(i)
    THEN IF CheckForNoMatchError(i)
         THEN [summary |-> ZeroSummary, err |-> FALSE, exists |-> ex, pac |-> NotCalled]
         ELSE [summary |-> ZeroSummary, err |-> TRUE, exists |-> ex, pac |-> NotCalled]
    ELSE LET all == i.lines \o (IF i.frag = NoLine THEN <<>> ELSE <<i.frag>>)
             r == ParseAndCleanup(actual.FolderPrefix, all, ex, i.locked, i.failAt) IN
         [summary |-> IF r.err THEN ZeroSummary ELSE r.summary,
          err |-> r.err,
          exists |-> r.exists,
          pac |-> [called |-> TRUE, summary |-> r.summary, err |-> r.err]]

\* variant of ProcessFiles that parses the sink of a failed invocation too,
\* unless the failure is the empty match
ProcessFilesParsesAfterFailure(i, ex) ==
    IF i.outcome = "uuid"
    THEN [summary |-> ZeroSummary, err |-> TRUE, exists |-> ex, pac |-> NotCalled]
    ELSE IF RunS5cmdFailed(i) /\ CheckForNoMatchError(i)
    THEN [summary |-> ZeroSummary, err |-> FALSE, exists |-> ex, pac |-> NotCalled]
    ELSE IF ~SinkCreated(i)
    THEN [summary |-> ZeroSummary, err |-> TRUE, exists |-> ex, pac |-> NotCalled]
    ELSE LET r == ParseAndCleanup(actual.FolderPrefix, i.lines, ex, i.locked, i.failAt) IN
         [summary |-> IF r.err THEN ZeroSummary ELSE r.summary,
          err |-> r.err \/ RunS5cmdFailed(i),
          exists |-> r.exists,
          pac |-> [called |-> TRUE, summary |-> r.summary, err |-> r.err]]

\* processFiles on environment i with the local files ex; its folderPrefix
\* argument is actualFolderPrefix
ProcessFiles(i, ex) ==
    IF i.outcome = "uuid"
    THEN [summary |-> ZeroSummary, err |-> TRUE, exists |-> ex, pac |-> NotCalled]
    ELSE IF RunS5cmdFailed(i)
    THEN IF CheckForNoMatchError(i)
         THEN [summary |-> ZeroSummary, err |-> FALSE, exists |-> ex, pac |-> NotCalled]
         ELSE [summary |-> ZeroSummary, err |-> TRUE, exists |-> ex, pac |-> NotCalled]
    ELSE LET r == ParseAndCleanup(actual.FolderPrefix, i.lines, ex, i.locked, i.failAt) IN
         [summary |-> IF r.err THEN ZeroSummary ELSE r.summary,
          err |-> r.err,
          exists |-> r.exists,
          pac |-> [called |-> TRUE, summary |-> r.summary, err |-> r.err]]

-----------------------------------------------------------------------------
(* The order of the steps of a cycle *)

\* variant of ParseEvents in which the file named by a line is removed before
\* the line is looked at
RECURSIVE ParseEventsRemoveFirst(_, _, _)
ParseEventsRemoveFirst(lines, k, failAt) ==
    IF k = failAt \/ k > Len(lines) THEN <<>>
    ELSE LET u == UnmarshalJobResult(lines[k]) IN
         (IF u.ok /\ Qualifies(u.result)
          THEN <<[ev |-> "remove", path |-> u.result.Source]>> ELSE <<>>)
         \o <<[ev |-> "read", line |-> lines[k]]>>
         \o ParseEventsRemoveFirst(lines, k + 1, failAt)

\* parseAndCleanup's loop from its k-th ReadBytes call on: a line is read,
\* decoded and tested, and only then is os.Remove called on its source
RECURSIVE ParseEvents(_, _, _)
ParseEvents(lines, k, failAt) ==
    IF k = failAt \/ k > Len(lines) THEN <<>>
    ELSE LET u == UnmarshalJobResult(lines[k]) IN
         <<[ev |-> "read", line |-> lines[k]]>>
         \o (IF u.ok /\ Qualifies(u.result)
             THEN <<[ev |-> "remove", path |-> u.result.Source]>> ELSE <<>>)
         \o ParseEvents(lines, k + 1, failAt)

\* processFiles: runS5cmd returns when cmd.Run has returned, that is when the
\* tool has exited (no tool runs if the sink cannot be made); then the sink
\* is classified or parsed
ProcessFilesEvents(i) ==
    IF i.outcome = "uuid" THEN <<>>
    ELSE IF i.outcome = "create" THEN <<>>
    ELSE IF i.outcome = "exit" THEN <<[ev |-> "exit"], [ev |-> "classify"]>>
    ELSE <<[ev |-> "exit"]>> \o ParseEvents(i.lines, 1, i.failAt)

-----------------------------------------------------------------------------
(* Inputs *)

SeqsUpTo(S, n) == UNION {[1..k -> S] : k \in 0..n}

\* sinks of at most n JSON values, the last one possibly not newline-terminated
Sinks(S, n) ==
    {[lines |-> ls, frag |-> NoLine] : ls \in SeqsUpTo(S, n)}
    \cup (IF n = 0 THEN {}
          ELSE {[lines |-> ls, frag |-> f] : ls \in SeqsUpTo(S, n - 1), f \in S})

Input(o, sk, lk, fa) ==
    [outcome |-> o, lines |-> sk.lines, frag |-> sk.frag, locked |-> lk, failAt |-> fa]

EmptySink == [lines |-> <<>>, frag |-> NoLine]

\* the environments of one call: the tool ran (and exited with or without
\* failure) leaving a sink, or no sink was made; a read error, if any, hits
\* one of the ReadBytes calls the sink allows; removal permissions and read
\* errors matter only when the sink is parsed
ValidInput(o, sk, lk, fa) ==
    /\ (o = "ok" => fa <= Len(sk.lines) + 1)
    /\ (o # "ok" => fa = 0 /\ lk = {})
    /\ (o \in {"create", "uuid"} => sk = EmptySink)

PFSinks == Sinks(Lines, MaxLines)

NoInput == Input("ok", EmptySink, {}, 0)
NoReturn == [summary |-> ZeroSummary, err |-> FALSE]
NoReport == [printed |-> FALSE]
ZeroTotals == [FilesTransferred |-> 0, FilesDeleted |-> 0, TotalBytes |-> 0, FilesFailed |-> 0]

-----------------------------------------------------------------------------
(* Configuration: flags, environment, startup validation, the tool's command *)

\* the three credential variables main and runS5cmd read with os.Getenv
CredVars == {"AWS_ACCESS_KEY_ID", "AWS_SECRET_ACCESS_KEY", "AWS_DEFAULT_REGION"}

\* what the process is started with: the value of a flag ("" when it is left at
\* its default ""), the value of the environment variable of the same option
\* ("" when unset or empty), the credential variables that have a non-empty
\* value (none, two of them, all three), the endpoint option, and the
\* folder-prefix flag, here at its default
Confs ==
    [flagPrefix : {"/tmp/"},
     flagBucket : {"", "s3://flag-bucket/logs/"},
     envBucket : {"", "s3://env-bucket/logs/"},
     flagCreds : {"", "/etc/flag.credentials"},
     envCreds : {"", "/etc/env.credentials"},
     awsEnv : {{}, {"AWS_ACCESS_KEY_ID", "AWS_SECRET_ACCESS_KEY"}, CredVars},
     endpoint : {"", "https://minio.local:9000"}]

\* getEnvOrFlag, envValue being os.Getenv(envKey)
GetEnvOrFlag(envValue, flagValue) ==
    IF envValue # "" THEN envValue ELSE flagValue

\* hasAwsEnvCreds: all three variables are non-empty
HasAwsEnvCreds(c) ==
    /\ "AWS_ACCESS_KEY_ID" \in c.awsEnv
    /\ "AWS_SECRET_ACCESS_KEY" \in c.awsEnv
    /\ "AWS_DEFAULT_REGION" \in c.awsEnv

\* the actual* values of main; the profile flag is left at its default
Resolve(c) ==
    [FolderPrefix |-> GetEnvOrFlag("", c.flagPrefix),
     S3BucketPath |-> GetEnvOrFlag(c.envBucket, c.flagBucket),
     AwsCredsFile |-> GetEnvOrFlag(c.envCreds, c.flagCreds),
     AwsProfile |-> GetEnvOrFlag("", "default"),
     AwsEndpointURL |-> GetEnvOrFlag(c.endpoint, ""),
     hasAwsEnvCreds |-> HasAwsEnvCreds(c)]

\* variant of FatalAtStartup that accepts a missing destination
FatalAtStartupCredsOnly(a) == a.AwsCredsFile = "" /\ ~a.hasAwsEnvCreds

\* the two log.Fatal checks of main
FatalAtStartup(a) ==
    \/ a.S3BucketPath = ""
    \/ a.AwsCredsFile = "" /\ ~a.hasAwsEnvCreds

\* const LogLevel
LogLevel == "info"

\* srcPath for a folder prefix of FolderPrefixes and the default path suffix
\* "/**/**/*.gz": the suffix without its leading separator, joined to the prefix
SrcPath(folderPrefix) ==
    IF folderPrefix = "/tmp/" THEN "/tmp/**/**/*.gz" ELSE "/var/**/**/*.gz"

\* variant of CmdArguments that passes the credentials file whenever one is configured
CmdArgumentsFileFirst(a) ==
    <<"--json", "--log", LogLevel>>
    \o (IF a.AwsEndpointURL # "" THEN <<"--endpoint-url", a.AwsEndpointURL>> ELSE <<>>)
    \o (IF a.AwsCredsFile = ""
        THEN <<"cp", SrcPath(a.FolderPrefix), a.S3BucketPath>>
        ELSE <<"--credentials-file", a.AwsCredsFile, "--profile", a.AwsProfile,
               "cp", SrcPath(a.FolderPrefix), a.S3BucketPath>>)

\* cmdArguments of runS5cmd
CmdArguments(a) ==
    <<"--json", "--log", LogLevel>>
    \o (IF a.AwsEndpointURL # "" THEN <<"--endpoint-url", a.AwsEndpointURL>> ELSE <<>>)
    \o (IF a.hasAwsEnvCreds
        THEN <<"cp", SrcPath(a.FolderPrefix), a.S3BucketPath>>
        ELSE <<"--credentials-file", a.AwsCredsFile, "--profile", a.AwsProfile,
               "cp", SrcPath(a.FolderPrefix), a.S3BucketPath>>)

\* the credential variables in cmd.Env: those of os.Environ(), and the three
\* appended when hasAwsEnvCreds
CmdEnv(c, a) == c.awsEnv \cup (IF a.hasAwsEnvCreds THEN CredVars ELSE {})

\* the exec.Cmd runS5cmd builds
Command(c, a) == [built |-> TRUE, args |-> CmdArguments(a), env |-> CmdEnv(c, a)]

NoCmd == [built |-> FALSE]

\* a valid configuration in file mode: both flags given, nothing in the environment
DefaultConf ==
    [flagPrefix |-> "/tmp/",
     flagBucket |-> "s3://flag-bucket/logs/", envBucket |-> "",
     flagCreds |-> "/etc/flag.credentials", envCreds |-> "",
     awsEnv |-> {}, endpoint |-> ""]

NoActual == [FolderPrefix |-> "", S3BucketPath |-> "", AwsCredsFile |-> "", AwsProfile |-> "",
             AwsEndpointURL |-> "", hasAwsEnvCreds |-> FALSE]

\* variant of DeferRegistered: the sink is removed only after a successful run
DeferRegisteredAfterRun(i) == i.outcome = "ok"

\* defer os.Remove(jsonOutputFile) is registered once the name was generated
DeferRegistered(i) == i.outcome # "uuid"

\* the sink file is still there when processFiles has returned
SinkLeft(i) == SinkCreated(i) /\ ~DeferRegistered(i)

NoOperands == <<>>
NoFolds == <<>>
NoPathArgs == [given |-> FALSE]
NoSrcPath == [built |-> FALSE]

-----------------------------------------------------------------------------
(* SpecPF: one call of processFiles *)

loopVars == <<cancelled, tickPending, interval, netdataEnabled, accumulatedSummary,
              runCounter, totalRuns, session, atReset, resets, periodicLogs, sigRun,
              finalSummary, finalMetrics, exitCode, started>>

\* what only startup or the fold of SpecAcc sets
constVars == <<conf, actual, runLimit, operands, folds, pathArgs, srcPath>>

InitLoopVars ==
    /\ cancelled = FALSE
    /\ tickPending = FALSE
    /\ netdataEnabled \in BOOLEAN
    /\ accumulatedSummary = ZeroSummary
    /\ runCounter = 0
    /\ totalRuns = 0
    /\ session = ZeroTotals
    /\ atReset = ZeroTotals
    /\ resets = 0
    /\ periodicLogs = 0
    /\ sigRun = 0
    /\ finalSummary = NoReport
    /\ finalMetrics = NoReport
    /\ exitCode = -1
    /\ started = 0
    /\ sinkFiles = 0
    /\ cmd = NoCmd
    /\ folds = NoFolds
    /\ runMetrics = NoReport
    /\ events = <<>>
    /\ srcPath = NoSrcPath

InitPF ==
    /\ InitLoopVars
    /\ conf \in {[DefaultConf EXCEPT !.flagPrefix = fp] : fp \in FolderPrefixes}
    /\ actual = Resolve(conf)
    /\ runLimit = MaxRuns
    /\ operands = NoOperands
    /\ pathArgs = NoPathArgs
    /\ interval = 1
    /\ pc = "call"
    /\ exists \in SUBSET Paths
    /\ \E sk \in PFSinks, o \in Outcomes, lk \in SUBSET exists, fa \in 0..(MaxLines + 1) :
        /\ ValidInput(o, sk, lk, fa)
        /\ in = Input(o, sk, lk, fa)
    /\ ret = NoReturn
    /\ pac = NotCalled
    /\ removed = {}

\* summary, err := processFiles(...)
ProcessFilesCall ==
    /\ pc = "call"
    /\ LET r == ProcessFiles(in, exists) IN
        /\ ret' = [summary |-> r.summary, err |-> r.err]
        /\ pac' = r.pac
        /\ exists' = r.exists
        /\ removed' = exists \ r.exists
    /\ cmd' = IF in.outcome = "uuid" THEN cmd ELSE Command(conf, actual)
    /\ sinkFiles' = IF SinkLeft(in) THEN sinkFiles + 1 ELSE sinkFiles
    /\ pc' = "returned"
    /\ events' = ProcessFilesEvents(in)
    /\ UNCHANGED <<in, loopVars, constVars, runMetrics>>

NextPF == ProcessFilesCall

SpecPF == InitPF /\ [][NextPF]_vars

-----------------------------------------------------------------------------
(* main: the accumulator, the reports and the select loop *)

\* loggingInterval := 1 * time.Minute, in seconds
LoggingInterval == 60

\* values of actualProcessInterval, in seconds: 3, 2.4, 1.7 and 0.67 runs per minute
Intervals == {20, 25, 35, 90}

\* variant of RunsPerLog that rounds the quotient up
RunsPerLogRoundedUp(iv) ==
    LET n == LoggingInterval \div iv IN
    IF n < 1 THEN 1 ELSE IF n * iv < LoggingInterval THEN n + 1 ELSE n

\* runsPerLog := int(loggingInterval / actualProcessInterval), at least 1
RunsPerLog(iv) ==
    LET n == LoggingInterval \div iv IN IF n < 1 THEN 1 ELSE n

\* variant of Accumulate that assigns instead of adding
AccumulateOverwriting(into, from) ==
    [FilesTransferred |-> from.FilesTransferred,
     FilesDeleted |-> from.FilesDeleted,
     TotalBytes |-> from.TotalBytes,
     FilesFailed |-> from.FilesFailed]

\* variant of Accumulate that assigns the failed list instead of appending to it
AccumulateReplacingFailed(into, from) ==
    [FilesTransferred |-> into.FilesTransferred + from.FilesTransferred,
     FilesDeleted |-> into.FilesDeleted + from.FilesDeleted,
     TotalBytes |-> into.TotalBytes + from.TotalBytes,
     FilesFailed |-> from.FilesFailed]

\* variant of Accumulate that leaves FilesDeleted alone
AccumulateSkipsDeleted(into, from) ==
    [FilesTransferred |-> into.FilesTransferred + from.FilesTransferred,
     FilesDeleted |-> into.FilesDeleted,
     TotalBytes |-> into.TotalBytes + from.TotalBytes,
     FilesFailed |-> into.FilesFailed \o from.FilesFailed]

\* the four += / append statements that fold a run's Summary
Accumulate(into, from) ==
    [FilesTransferred |-> into.FilesTransferred + from.FilesTransferred,
     FilesDeleted |-> into.FilesDeleted + from.FilesDeleted,
     TotalBytes |-> into.TotalBytes + from.TotalBytes,
     FilesFailed |-> into.FilesFailed \o from.FilesFailed]

\* variant of PeriodicDue with > for >=
PeriodicDueLate(rc, iv) == rc > RunsPerLog(iv)

\* if runCounter >= runsPerLog
PeriodicDue(rc, iv) == rc >= RunsPerLog(iv)

\* the periodic line is logged only if accumulatedSummary.FilesTransferred > 0
PeriodicLogged(acc) == acc.FilesTransferred > 0

\* variant of ShutdownReported that looks at the transferred files only
ShutdownReportedIfFiles(acc, rc) == acc.FilesTransferred > 0

\* the shutdown branch reports only if
\* accumulatedSummary.FilesTransferred > 0 || runCounter > 0
ShutdownReported(acc, rc) == acc.FilesTransferred > 0 \/ rc > 0

\* the numbers of a report line or of a metrics snapshot
Report(acc, runs) ==
    [printed |-> TRUE,
     FilesTransferred |-> acc.FilesTransferred,
     FilesDeleted |-> acc.FilesDeleted,
     TotalBytes |-> acc.TotalBytes,
     FilesFailed |-> Len(acc.FilesFailed),
     Runs |-> runs]

\* if actualNetdataEnabled { sendToNetdata(address, &summary, 1) }: the
\* metrics are written unless net.Dial fails, which is only logged
SendToNetdata(enabled, dialOk, summary) ==
    IF enabled /\ dialOk THEN Report(summary, 1) ELSE NoReport

\* history: the sums of the Summaries returned so far
AddTotals(t, s) ==
    [FilesTransferred |-> t.FilesTransferred + s.FilesTransferred,
     FilesDeleted |-> t.FilesDeleted + s.FilesDeleted,
     TotalBytes |-> t.TotalBytes + s.TotalBytes,
     FilesFailed |-> t.FilesFailed + Len(s.FilesFailed)]

\* a line reporting p as a successfully copied file
CopiedLine(p) == Rec("cp", TRUE, p, "file")

SinkOf(ls) == [lines |-> ls, frag |-> NoLine]

\* the environments of a cycle in the loop specification: the glob matched
\* nothing (reported as the no-match envelope with a failure status), the tool
\* failed without output, no sink could be made, one file was copied (removable
\* if it still exists), two files were copied and neither may be removed, and
\* one file was copied and the read after its line failed
LoopInputs ==
    {Input("exit", SinkOf(<<[kind |-> "envelope", error |-> <<"ERROR", NoMatchText, "\"/tmp/**/*.gz\"">>]>>), {}, 0),
     Input("exit", EmptySink, {}, 0),
     Input("create", EmptySink, {}, 0),
     Input("ok", SinkOf(<<CopiedLine("/tmp/a.gz")>>), {}, 0),
     Input("ok", SinkOf(<<CopiedLine("/tmp/a.gz"), CopiedLine("/var/b.gz")>>), Paths, 0),
     Input("ok", SinkOf(<<CopiedLine("/var/b.gz")>>), {}, 2)}

cycleVars == <<in, ret, pac, removed, runMetrics, events>>
historyVars == <<totalRuns, session, atReset, resets, periodicLogs>>
shutdownVars == <<finalSummary, finalMetrics, exitCode>>
configVars == <<interval, netdataEnabled>>

Init ==
    /\ InitLoopVars
    /\ conf = DefaultConf
    /\ actual = Resolve(DefaultConf)
    /\ runLimit = MaxRuns
    /\ operands = NoOperands
    /\ pathArgs = NoPathArgs
    /\ interval \in Intervals
    /\ pc = "select"
    /\ exists = Paths
    /\ in = NoInput
    /\ ret = NoReturn
    /\ pac = NotCalled
    /\ removed = {}

\* the goroutine: sig := <-sigChan; cancel()
Signal ==
    /\ pc \in {"select", "running"}
    /\ ~cancelled
    /\ cancelled' = TRUE
    /\ sigRun' = IF pc = "running" THEN totalRuns + 1 ELSE 0
    /\ UNCHANGED <<pc, tickPending, accumulatedSummary, runCounter, exists,
                   cycleVars, historyVars, shutdownVars, configVars,
                   started, sinkFiles, cmd, constVars>>

\* the ticker puts a tick into ticker.C
TickFire ==
    /\ pc \in {"select", "running"}
    /\ ~tickPending
    /\ tickPending' = TRUE
    /\ UNCHANGED <<pc, cancelled, accumulatedSummary, runCounter, exists, sigRun,
                   cycleVars, historyVars, shutdownVars, configVars,
                   started, sinkFiles, cmd, constVars>>

\* variant of SelectTick in which a tick is taken while a cycle is executing
SelectTickWhileRunning ==
    /\ pc \in {"select", "running"}
    /\ tickPending
    /\ totalRuns < runLimit
    /\ tickPending' = FALSE
    /\ pc' = "running"
    /\ started' = started + 1
    /\ UNCHANGED <<cancelled, accumulatedSummary, runCounter, exists, sigRun,
                   cycleVars, historyVars, shutdownVars, configVars,
                   sinkFiles, cmd, constVars>>

\* select takes case <-ticker.C and processFiles starts the tool; with
\* ctx.Done() ready too, select picks either case
SelectTick ==
    /\ pc = "select"
    /\ tickPending
    /\ totalRuns < runLimit
    /\ tickPending' = FALSE
    /\ pc' = "running"
    /\ started' = started + 1
    /\ UNCHANGED <<cancelled, accumulatedSummary, runCounter, exists, sigRun,
                   cycleVars, historyVars, shutdownVars, configVars,
                   sinkFiles, cmd, constVars>>

\* the rest of case <-ticker.C: processFiles returns, the Summary is folded,
\* runCounter is incremented and every runsPerLog ticks the totals are
\* logged (if any file was transferred) and reset
CycleComplete ==
    /\ pc = "running"
    /\ \E i \in LoopInputs, dialOk \in BOOLEAN :
        LET r == ProcessFiles(i, exists)
            acc1 == Accumulate(accumulatedSummary, r.summary)
            rc1 == runCounter + 1
            due == PeriodicDue(rc1, interval)
            ses1 == AddTotals(session, r.summary)
        IN  /\ ret' = [summary |-> r.summary, err |-> r.err]
            /\ pac' = r.pac
            /\ exists' = r.exists
            /\ removed' = exists \ r.exists
            /\ accumulatedSummary' = IF due THEN ZeroSummary ELSE acc1
            /\ runCounter' = IF due THEN 0 ELSE rc1
            /\ periodicLogs' = IF due /\ PeriodicLogged(acc1)
                               THEN periodicLogs + 1 ELSE periodicLogs
            /\ resets' = IF due THEN resets + 1 ELSE resets
            /\ session' = ses1
            /\ atReset' = IF due THEN ses1 ELSE atReset
            /\ cmd' = Command(conf, actual)
            /\ sinkFiles' = IF SinkLeft(i) THEN sinkFiles + 1 ELSE sinkFiles
            /\ runMetrics' = SendToNetdata(netdataEnabled, dialOk, r.summary)
            /\ events' = ProcessFilesEvents(i) \o <<[ev |-> "fold"]>>
    /\ totalRuns' = totalRuns + 1
    /\ pc' = "select"
    /\ UNCHANGED <<cancelled, tickPending, in, sigRun, shutdownVars, configVars,
                   started, constVars>>

\* variant of SelectShutdown that logs the final summary only when the final
\* metrics were sent or metrics are disabled
SelectShutdownSilentOnDialError ==
    /\ pc = "select"
    /\ cancelled
    /\ \E dialOk \in BOOLEAN :
        /\ finalMetrics' =
              IF netdataEnabled /\ ShutdownReported(accumulatedSummary, runCounter) /\ dialOk
              THEN Report(accumulatedSummary, runCounter) ELSE NoReport
        /\ finalSummary' =
              IF ShutdownReported(accumulatedSummary, runCounter)
                 /\ (~netdataEnabled \/ dialOk)
              THEN Report(accumulatedSummary, runCounter) ELSE NoReport
    /\ exitCode' = 0
    /\ pc' = "done"
    /\ UNCHANGED <<cancelled, tickPending, accumulatedSummary, runCounter, exists,
                   sigRun, cycleVars, historyVars, configVars,
                   started, sinkFiles, cmd, constVars>>

\* variant of SelectShutdown in which a pending tick is always served first
SelectShutdownAfterTicks ==
    /\ pc = "select"
    /\ cancelled
    /\ ~tickPending
    /\ \E dialOk \in BOOLEAN :
        finalMetrics' =
            IF netdataEnabled /\ ShutdownReported(accumulatedSummary, runCounter) /\ dialOk
            THEN Report(accumulatedSummary, runCounter) ELSE NoReport
    /\ finalSummary' =
            IF ShutdownReported(accumulatedSummary, runCounter)
            THEN Report(accumulatedSummary, runCounter) ELSE NoReport
    /\ exitCode' = 0
    /\ pc' = "done"
    /\ UNCHANGED <<cancelled, tickPending, accumulatedSummary, runCounter, exists,
                   sigRun, cycleVars, historyVars, configVars,
                   started, sinkFiles, cmd, constVars>>

\* select takes case <-ctx.Done(): metrics and the final summary, then return
SelectShutdown ==
    /\ pc = "select"
    /\ cancelled
    /\ \E dialOk \in BOOLEAN :
        finalMetrics' =
            IF netdataEnabled /\ ShutdownReported(accumulatedSummary, runCounter) /\ dialOk
            THEN Report(accumulatedSummary, runCounter) ELSE NoReport
    /\ finalSummary' =
            IF ShutdownReported(accumulatedSummary, runCounter)
            THEN Report(accumulatedSummary, runCounter) ELSE NoReport
    /\ exitCode' = 0
    /\ pc' = "done"
    /\ UNCHANGED <<cancelled, tickPending, accumulatedSummary, runCounter, exists,
                   sigRun, cycleVars, historyVars, configVars,
                   started, sinkFiles, cmd, constVars>>

Next ==
    \/ Signal
    \/ TickFire
    \/ SelectTick
    \/ CycleComplete
    \/ SelectShutdown

Spec == Init /\ [][Next]_vars

\* the loop under the scheduling the code relies on: the tool started by a
\* cycle eventually exits (cmd.Run returns), and select, which picks at random
\* among its ready cases, does not pass over a ready ctx.Done() forever
InitLive ==
    /\ InitLoopVars
    /\ conf = DefaultConf
    /\ actual = Resolve(DefaultConf)
    /\ runLimit = LiveRuns
    /\ operands = NoOperands
    /\ pathArgs = NoPathArgs
    /\ interval \in Intervals
    /\ pc = "select"
    /\ exists = Paths
    /\ in = NoInput
    /\ ret = NoReturn
    /\ pac = NotCalled
    /\ removed = {}

SpecLive ==
    InitLive /\ [][Next]_vars /\ WF_vars(CycleComplete) /\ SF_vars(SelectShutdown)

-----------------------------------------------------------------------------
(* SpecStart: main from its first statement *)

InitStart ==
    /\ InitLoopVars
    /\ conf \in Confs
    /\ actual = NoActual
    /\ runLimit = StartRuns
    /\ operands = NoOperands
    /\ pathArgs = NoPathArgs
    /\ interval \in Intervals
    /\ pc = "start"
    /\ exists = Paths
    /\ in = NoInput
    /\ ret = NoReturn
    /\ pac = NotCalled
    /\ removed = {}

\* flag.Parse(), the actual* values, hasAwsEnvCreds and the two checks that
\* end the process with log.Fatal (exit status 1)
Startup ==
    /\ pc = "start"
    /\ actual' = Resolve(conf)
    /\ IF FatalAtStartup(Resolve(conf))
       THEN pc' = "fatal" /\ exitCode' = 1
       ELSE pc' = "select" /\ exitCode' = exitCode
    /\ UNCHANGED <<cancelled, tickPending, accumulatedSummary, runCounter, exists,
                   sigRun, cycleVars, historyVars, finalSummary, finalMetrics,
                   configVars, started, sinkFiles, cmd, conf, runLimit, operands, folds,
                   pathArgs, srcPath>>

NextStart ==
    \/ Startup
    \/ Signal
    \/ TickFire
    \/ SelectTick
    \/ CycleComplete
    \/ SelectShutdown

SpecStart == InitStart /\ [][NextStart]_vars

-----------------------------------------------------------------------------
(* SpecAcc: the accumulation statements of main on three run Summaries *)

\* Summaries a run can return: every transferred file was deleted or is listed
RunSummaries ==
    {Summary(d + Len(f), d, b, f) :
        d \in 0..1, b \in {0, 1024}, f \in SeqsUpTo(Paths, MaxFailed)}

\* the orders in which three Summaries can be folded
Orders == {o \in [1..3 -> 1..3] : \A i, j \in 1..3 : i # j => o[i] # o[j]}

\* accumulatedSummary after the runs returned ss[o[1]], ss[o[2]], ss[o[3]]
FoldInOrder(ss, o) ==
    Accumulate(Accumulate(Accumulate(ZeroSummary, ss[o[1]]), ss[o[2]]), ss[o[3]])

InitAcc ==
    /\ InitLoopVars
    /\ conf = DefaultConf
    /\ actual = Resolve(DefaultConf)
    /\ runLimit = 0
    /\ interval = 1
    /\ pc = "fold"
    /\ exists = {}
    /\ in = NoInput
    /\ ret = NoReturn
    /\ pac = NotCalled
    /\ removed = {}
    /\ operands \in [1..3 -> RunSummaries]
    /\ pathArgs = NoPathArgs

\* the statements of lines 221-224 applied to the three Summaries in every
\* order, and to the first Summary and the sum of the other two
FoldAll ==
    /\ pc = "fold"
    /\ folds' = [byOrder |-> [o \in Orders |-> FoldInOrder(operands, o)],
                 grouped |-> Accumulate(Accumulate(ZeroSummary, operands[1]),
                                        Accumulate(operands[2], operands[3]))]
    /\ pc' = "folded"
    /\ UNCHANGED <<cancelled, tickPending, interval, netdataEnabled, accumulatedSummary,
                   runCounter, exists, in, ret, pac, removed, totalRuns, session,
                   atReset, resets, periodicLogs, sigRun, finalSummary, finalMetrics,
                   exitCode, started, sinkFiles, conf, actual, cmd, runLimit, operands,
                   runMetrics, events, pathArgs, srcPath>>

NextAcc == FoldAll

SpecAcc == InitAcc /\ [][NextAcc]_vars

-----------------------------------------------------------------------------
(* SpecSrc: srcPath of runS5cmd, strings being sequences of characters *)

\* the separator and a character of a name; no '.', so that no element is
\* "." or ".."
PathChars == {"/", "d"}

PathStrings == SeqsUpTo(PathChars, MaxPathLen)

\* variant of StripLeadingSeparator that strips every leading separator
RECURSIVE StripLeadingSeparators(_)
StripLeadingSeparators(s) ==
    IF Len(s) > 0 /\ s[1] = "/" THEN StripLeadingSeparators(Tail(s)) ELSE s

\* if len(pathSuffix) > 0 && pathSuffix[0] == '/' { pathSuffix = pathSuffix[1:] }
StripLeadingSeparator(s) ==
    IF Len(s) > 0 /\ s[1] = "/" THEN Tail(s) ELSE s

\* the scan of filepath.Clean over a path without "." and ".." elements:
\* a separator that follows a separator is dropped
RECURSIVE Collapse(_, _, _)
Collapse(p, k, out) ==
    IF k > Len(p) THEN out
    ELSE IF p[k] = "/" /\ out # <<>> /\ out[Len(out)] = "/"
    THEN Collapse(p, k + 1, out)
    ELSE Collapse(p, k + 1, Append(out, p[k]))

\* filepath.Clean: "." for the empty path, no repeated separator, no trailing
\* separator except in the root
Clean(p) ==
    IF p = <<>> THEN <<".">>
    ELSE LET c == Collapse(p, 1, <<>>) IN
         IF Len(c) > 1 /\ c[Len(c)] = "/" THEN SubSeq(c, 1, Len(c) - 1) ELSE c

\* filepath.Join(a, b): empty leading elements are ignored, the rest is joined
\* with the separator and cleaned; "" if both are empty
Join(a, b) ==
    IF a # <<>> THEN Clean(a \o <<"/">> \o b)
    ELSE IF b # <<>> THEN Clean(b)
    ELSE <<>>

InitSrc ==
    /\ InitLoopVars
    /\ conf = DefaultConf
    /\ actual = Resolve(DefaultConf)
    /\ runLimit = 0
    /\ operands = NoOperands
    /\ interval = 1
    /\ pc = "build"
    /\ exists = {}
    /\ in = NoInput
    /\ ret = NoReturn
    /\ pac = NotCalled
    /\ removed = {}
    /\ pathArgs \in [given : {TRUE}, folderPrefix : PathStrings, pathSuffix : PathStrings]

\* the first statements of runS5cmd, up to srcPath
BuildSrcPath ==
    /\ pc = "build"
    /\ LET stripped == StripLeadingSeparator(pathArgs.pathSuffix) IN
        srcPath' = [built |-> TRUE, stripped |-> stripped,
                    src |-> Join(pathArgs.folderPrefix, stripped)]
    /\ pc' = "built"
    /\ UNCHANGED <<cancelled, tickPending, interval, netdataEnabled, accumulatedSummary,
                   runCounter, exists, in, ret, pac, removed, totalRuns, session,
                   atReset, resets, periodicLogs, sigRun, finalSummary, finalMetrics,
                   exitCode, started, sinkFiles, conf, actual, cmd, runLimit, operands,
                   folds, runMetrics, events, pathArgs>>

NextSrc == BuildSrcPath

SpecSrc == InitSrc /\ [][NextSrc]_vars

-----------------------------------------------------------------------------
(* Properties of one processFiles call (SpecPF) *)

Range(f) == {f[k] : k \in DOMAIN f}

\* the local files that existed when the call started
Before == exists \cup removed

\* a line of the tool's output reporting a successfully copied file
CopiedFileLine(l) ==
    l.kind = "record" /\ l.operation = "cp" /\ l.success /\ l.type = "file"

\* the same with the operation tag spelt "copy"
CopyTaggedFileLine(l) ==
    l.kind = "record" /\ l.operation = "copy" /\ l.success /\ l.type = "file"

\* everything the tool wrote, newline-terminated or not
Output == in.lines \o (IF in.frag = NoLine THEN <<>> ELSE <<in.frag>>)

\* the newline-terminated lines the pass got to read
ReadLines ==
    IF in.failAt = 0 THEN in.lines ELSE SubSeq(in.lines, 1, in.failAt - 1)

\* C1 as stated: for every local file f, f is deleted in the cycle if and only
\* if the tool's output of the cycle holds a record naming f as source with a
\* successful copy of a file.
C1_Original ==
    pc = "returned" =>
        \A f \in Before :
            f \in removed <=>
                \E k \in 1..Len(Output) : CopiedFileLine(Output[k]) /\ Output[k].source = f

\* C1 (amended): a local file f is deleted in the cycle only if the invocation
\* succeeded and the output holds a newline-terminated record naming f with
\* operation "cp", success and type "file"; and when the invocation succeeded
\* and the sink was read to its end, every local file named by such a record
\* is deleted, or its removal failed, it still exists and it is listed in
\* failedDeletions.
C1_DeleteOnlyIfCopied ==
    pc = "returned" =>
        \A f \in Before :
            /\ f \in removed =>
                /\ in.outcome = "ok"
                /\ \E k \in 1..Len(in.lines) :
                      CopiedFileLine(in.lines[k]) /\ in.lines[k].source = f
            /\ ( /\ in.outcome = "ok"
                 /\ in.failAt = 0
                 /\ \E k \in 1..Len(in.lines) :
                      CopiedFileLine(in.lines[k]) /\ in.lines[k].source = f )
               => \/ f \in removed
                  \/ f \in exists /\ f \in Range(pac.summary.FilesFailed)

\* one file deleted after its record, another kept because its removal failed
C1_Witness ==
    /\ pc = "returned"
    /\ "/tmp/a.gz" \in removed
    /\ "/var/b.gz" \in exists
    /\ "/var/b.gz" \in Range(pac.summary.FilesFailed)

\* C2: the Summary parseAndCleanup produces satisfies
\* FilesDeleted + len(FilesFailed) = FilesTransferred, whatever the lines and
\* whatever the outcome of each removal.
C2_Accounted ==
    (pc = "returned" /\ pac.called) =>
        pac.summary.FilesDeleted + Len(pac.summary.FilesFailed)
            = pac.summary.FilesTransferred

\* a pass with one removal that succeeded and one that failed
C2_Witness ==
    /\ pc = "returned"
    /\ pac.called
    /\ pac.summary.FilesTransferred = 2
    /\ pac.summary.FilesDeleted = 1
    /\ Len(pac.summary.FilesFailed) = 1

\* the pass over the lines read is the pass over those of them that satisfy
\* actionable, and each of those counts as one transferred file
OnlyActionableCount(actionable(_)) ==
    (pc = "returned" /\ pac.called) =>
        LET q == SelectSeq(ReadLines, actionable)
            r == ParseAndCleanup(actual.FolderPrefix, q, Before, in.locked, 0)
        IN  /\ pac.summary = r.summary
            /\ exists = r.exists
            /\ pac.summary.FilesTransferred = Len(q)

\* C3 as stated: a record with operation # "copy", or success false, or type #
\* "file" affects no Summary field and removes nothing; only records with
\* operation "copy", success and type "file" are actionable.
C3_Original == OnlyActionableCount(CopyTaggedFileLine)

\* C3 (amended): the same with the operation tag the code tests, "cp": a record
\* with operation # "cp", or success false, or type # "file" affects no Summary
\* field and removes nothing; only "cp" records with success and type "file"
\* are actionable.
C3_OnlyCpSuccessFile == OnlyActionableCount(CopiedFileLine)

\* a pass that read a copied-file record and a record that is none
C3_Witness ==
    /\ pc = "returned"
    /\ pac.called
    /\ pac.summary.FilesTransferred = 1
    /\ \E k \in 1..Len(ReadLines) :
          ReadLines[k].kind = "record" /\ ~CopiedFileLine(ReadLines[k])

\* the sink holds exactly one object, an error envelope whose message
\* contains "no match found for"
OnlyNoMatchEnvelope ==
    /\ Len(Output) = 1
    /\ Output[1].kind = "envelope"
    /\ NoMatchText \in Range(Output[1].error)

\* C10: when the invocation reports failure and the sink holds exactly one
\* error envelope whose message contains "no match found for", processFiles
\* returns the zero Summary and no error, and no local file is deleted.
C10_NoMatchIsEmptyRun ==
    (pc = "returned" /\ in.outcome = "exit" /\ OnlyNoMatchEnvelope) =>
        /\ ret.summary = ZeroSummary
        /\ ~ret.err
        /\ removed = {}

C10_Witness ==
    /\ pc = "returned"
    /\ in.outcome = "exit"
    /\ OnlyNoMatchEnvelope
    /\ exists # {}
    /\ ~ret.err

\* the sink holds exactly one newline-terminated line, a record of a
\* successfully copied file, and every read succeeded
OneCopiedRecord ==
    /\ in.outcome = "ok"
    /\ in.failAt = 0
    /\ in.frag = NoLine
    /\ Len(in.lines) = 1
    /\ CopiedFileLine(in.lines[1])

\* C11: on a sink with one newline-terminated record {operation "cp", success,
\* type "file", size s, source p} where p exists and can be removed, the pass
\* returns filesTransferred = 1, filesDeleted = 1, totalBytes = s and an empty
\* failedDeletions, and p no longer exists.
C11_OneRecordDeleted ==
    (pc = "returned" /\ OneCopiedRecord
        /\ in.lines[1].source \in Before \ in.locked) =>
        /\ pac.called /\ ~pac.err
        /\ pac.summary = Summary(1, 1, in.lines[1].size, <<>>)
        /\ in.lines[1].source \notin exists

\* the 1024-byte file was reported copied and is gone
C11_Witness ==
    /\ pc = "returned"
    /\ OneCopiedRecord
    /\ in.lines[1].source = "/tmp/a.gz"
    /\ pac.summary.TotalBytes = 1024
    /\ pac.summary.FilesDeleted = 1
    /\ "/tmp/a.gz" \in removed

\* the records of successfully copied files among the lines read, in order
QualifyingRead == SelectSeq(ReadLines, CopiedFileLine)

\* the removal attempted for the j-th of them fails: the file is missing, its
\* removal is refused, or an earlier record of the pass already removed it
RemovalFails(q, j) ==
    \/ q[j].source \notin Before
    \/ q[j].source \in in.locked
    \/ \E h \in 1..(j - 1) : q[h].source = q[j].source

RECURSIVE FailedPaths(_, _)
FailedPaths(q, j) ==
    IF j = 0 THEN <<>>
    ELSE FailedPaths(q, j - 1) \o (IF RemovalFails(q, j) THEN <<q[j].source>> ELSE <<>>)

RECURSIVE SumSizes(_, _)
SumSizes(q, j) == IF j = 0 THEN 0 ELSE SumSizes(q, j - 1) + q[j].size

\* C12: a failed local deletion does not abort the pass: the path is appended
\* to failedDeletions, filesDeleted is not incremented, filesTransferred and
\* totalBytes still count the file, a file whose removal was refused still
\* exists, and every later qualifying record of the sink is still reconciled
\* (counted, and its file removed unless that removal fails too).
C12_FailedDeletionNotFatal ==
    (pc = "returned" /\ pac.called) =>
        LET q == QualifyingRead IN
        /\ pac.summary.FilesFailed = FailedPaths(q, Len(q))
        /\ pac.summary.FilesDeleted =
               Cardinality({j \in 1..Len(q) : ~RemovalFails(q, j)})
        /\ pac.summary.FilesTransferred = Len(q)
        /\ pac.summary.TotalBytes = SumSizes(q, Len(q))
        /\ \A j \in 1..Len(q) :
              /\ (q[j].source \in Before \cap in.locked) => q[j].source \in exists
              /\ ~RemovalFails(q, j) => q[j].source \in removed
        /\ (pac.err <=> in.failAt # 0)

\* the removal of the first copied file was refused, the second was removed
C12_Witness ==
    /\ pc = "returned"
    /\ pac.called
    /\ Len(QualifyingRead) = 2
    /\ QualifyingRead[1].source = "/tmp/a.gz"
    /\ "/tmp/a.gz" \in in.locked
    /\ pac.summary = Summary(2, 1, 1027, <<"/tmp/a.gz">>)
    /\ "/tmp/a.gz" \in exists
    /\ "/var/b.gz" \in removed

\* a line that holds one JSON object
Decodable(l) == l.kind \in {"record", "envelope"}

\* C20: a line that cannot be decoded as a record is skipped without an error
\* and without ending the pass: the Summary and the files removed are those of
\* the same sink with the undecodable lines taken out.
C20_UndecodableSkipped ==
    (pc = "returned" /\ pac.called) =>
        LET q == SelectSeq(ReadLines, Decodable)
            r == ParseAndCleanup(actual.FolderPrefix, q, Before, in.locked, 0)
        IN  /\ pac.summary = r.summary
            /\ exists = r.exists
            /\ (pac.err <=> in.failAt # 0)
            /\ (ret.err <=> in.failAt # 0)

\* a line of text before the record of a copied file, which is removed
C20_Witness ==
    /\ pc = "returned"
    /\ in.outcome = "ok"
    /\ in.failAt = 0
    /\ Len(in.lines) = 2
    /\ in.lines[1] = Garbage
    /\ CopiedFileLine(in.lines[2])
    /\ in.lines[2].source \in removed
    /\ ret.summary.FilesDeleted = 1
    /\ ~ret.err

\* C19: when processFiles has returned, on every path (the sink was parsed, the
\* tool matched nothing, the tool failed, the sink could not be made, the sink
\* could not be read), the sink file of the call no longer exists.
C19_SinkRemovedOnReturn ==
    pc = "returned" => sinkFiles = 0

\* the tool failed after it had written to its sink, and the sink is gone
C19_Witness ==
    /\ pc = "returned"
    /\ in.outcome = "exit"
    /\ SinkCreated(in)
    /\ Len(in.lines) > 0
    /\ ret.err
    /\ sinkFiles = 0

\* C21: reading the sink stops, without error, at a last line that lacks the
\* trailing newline: a record on that line is not counted and its file is not
\* deleted because of it, while every newline-terminated record before it is
\* reconciled.
C21_UnterminatedFragmentDropped ==
    (pc = "returned" /\ in.outcome = "ok" /\ in.failAt = 0 /\ in.frag # NoLine) =>
        /\ ~ret.err /\ pac.called
        /\ ret.summary.FilesTransferred = Len(SelectSeq(in.lines, CopiedFileLine))
        /\ \A f \in removed :
              \E k \in 1..Len(in.lines) :
                  CopiedFileLine(in.lines[k]) /\ in.lines[k].source = f
        /\ \A k \in 1..Len(in.lines) :
              (CopiedFileLine(in.lines[k]) /\ in.lines[k].source \in Before \ in.locked)
                  => in.lines[k].source \in removed

\* the terminated record's file was removed, the file of the record on the
\* unterminated last line was not
C21_Witness ==
    /\ pc = "returned"
    /\ in.outcome = "ok"
    /\ in.failAt = 0
    /\ in.lines = <<CopiedLine("/tmp/a.gz")>>
    /\ in.frag = CopiedLine("/var/b.gz")
    /\ in.locked = {}
    /\ removed = {"/tmp/a.gz"}
    /\ "/var/b.gz" \in exists
    /\ ret.summary = Summary(1, 1, 1024, <<>>)
    /\ ~ret.err

\* what the tool wrote, lines of white space left out
NonBlankOutput == SelectSeq(Output, LAMBDA l : l.kind # "blank")

\* the whole sink is one error envelope whose message contains
\* "no match found for", white space around it apart
DecodesAsNoMatchEnvelope ==
    /\ Len(NonBlankOutput) = 1
    /\ NonBlankOutput[1].kind = "envelope"
    /\ \E k \in 1..Len(NonBlankOutput[1].error) : NonBlankOutput[1].error[k] = NoMatchText

\* C25: the empty-match classification is attempted only when the invocation
\* reported failure, and it succeeds only when the whole sink decodes as one
\* error envelope whose message contains "no match found for"; every other
\* failure (empty or missing sink, another message, an envelope among other
\* lines) returns an error and the zero Summary, and the sink is not parsed.
C25_EmptyMatchClassification ==
    pc = "returned" =>
        /\ in.outcome \in {"exit", "create"} =>
              /\ ~pac.called
              /\ removed = {}
              /\ ret.summary = ZeroSummary
              /\ (~ret.err <=> (in.outcome = "exit" /\ DecodesAsNoMatchEnvelope))
        /\ in.outcome = "ok" =>
              /\ pac.called
              /\ (ret.err <=> in.failAt # 0)

\* the tool failed and wrote the no-match envelope and then another line:
\* a hard failure
C25_Witness ==
    /\ pc = "returned"
    /\ in.outcome = "exit"
    /\ Len(Output) = 2
    /\ Output[1].kind = "envelope"
    /\ NoMatchText \in Range(Output[1].error)
    /\ CopiedFileLine(Output[2])
    /\ ret.err
    /\ ret.summary = ZeroSummary

\* C29: when the invocation reports failure no local file is deleted in the
\* cycle, whatever the sink holds, newline-terminated records of successfully
\* copied files included: every local file is still there.
C29_NoDeletionAfterFailedInvocation ==
    (pc = "returned" /\ in.outcome \in {"exit", "create"}) =>
        /\ removed = {}
        /\ ~pac.called
        /\ ret.summary.FilesDeleted = 0
        /\ \A k \in 1..Len(in.lines) :
              (CopiedFileLine(in.lines[k]) /\ in.lines[k].source \in Before)
                  => in.lines[k].source \in exists

\* the tool reported two files as copied and then failed: both are kept
C29_Witness ==
    /\ pc = "returned"
    /\ in.outcome = "exit"
    /\ in.lines = <<CopiedLine("/tmp/a.gz"), CopiedLine("/var/b.gz")>>
    /\ exists = Paths
    /\ removed = {}
    /\ ret.err

\* C31: at the end of a reconciliation pass every path in failedDeletions
\* names a local file that still exists, and no path is both deleted in the
\* pass and listed in failedDeletions, whatever the sink holds: several
\* qualifying records with one source path and records whose source path
\* names no local file included.
C31_FailedDeletionsStillExist ==
    (pc = "returned" /\ pac.called) =>
        /\ \A p \in Range(pac.summary.FilesFailed) : p \in exists
        /\ Range(pac.summary.FilesFailed) \cap removed = {}

\* C32: the path a pass deletes for a qualifying record is the record's source
\* field as it stands, and the folder prefix has no effect on what is deleted:
\* whatever the prefix, the files deleted are exactly the existing, removable
\* files named as source by the qualifying records read, those outside the
\* folder prefix included, and the Summary is the one counted from those
\* records alone.
C32_SourceDeletedVerbatim ==
    (pc = "returned" /\ pac.called) =>
        LET q == QualifyingRead IN
        /\ removed = {f \in Before \ in.locked : \E j \in 1..Len(q) : q[j].source = f}
        /\ \A j \in 1..Len(q) :
              (~UnderPrefix(q[j].source, actual.FolderPrefix) /\ ~RemovalFails(q, j))
                  => q[j].source \in removed /\ q[j].source \notin exists
        /\ pac.summary.FilesTransferred = Len(q)
        /\ pac.summary.FilesDeleted = Cardinality(removed)
        /\ pac.summary.FilesFailed = FailedPaths(q, Len(q))

\* with the folder prefix "/tmp/" the only record names /var/b.gz, and that
\* file is deleted
C32_Witness ==
    /\ pc = "returned"
    /\ actual.FolderPrefix = "/tmp/"
    /\ in.outcome = "ok"
    /\ in.lines = <<CopiedLine("/var/b.gz")>>
    /\ in.failAt = 0
    /\ "/var/b.gz" \in removed
    /\ "/tmp/a.gz" \in exists
    /\ pac.summary = Summary(1, 1, 3, <<>>)

-----------------------------------------------------------------------------
(* Properties of the loop (Spec) *)

\* N = max(1, floor(reportingWindow / tickInterval))
WindowTicks ==
    IF LoggingInterval \div interval >= 1 THEN LoggingInterval \div interval ELSE 1

\* the step in which a cycle ends, and the step that takes the shutdown branch
CycleEnds == pc = "running" /\ pc' = "select"
ShutsDown == pc = "select" /\ pc' = "done"

\* C4: a cycle that was executing when the termination request arrived runs
\* to completion and its counts are part of the totals of the terminal report:
\* the report is made and the runs it covers reach back to that cycle.
C4_InFlightCycleReported ==
    (pc = "done" /\ sigRun # 0) =>
        /\ totalRuns >= sigRun
        /\ finalSummary.printed
        /\ finalSummary.Runs >= totalRuns - sigRun + 1

\* C5: once the context is cancelled no new run cycle is started.
C5_NoCycleStartsAfterCancel ==
    [][cancelled => ~(pc = "select" /\ pc' = "running")]_vars

C7_Original ==
    [][CycleEnds =>
        /\ (periodicLogs' = periodicLogs + 1) <=> (totalRuns' % WindowTicks = 0)
        /\ (totalRuns' % WindowTicks = 0) =>
              accumulatedSummary' = ZeroSummary /\ runCounter' = 0]_vars

\* C7 (amended): accumulator and tick counter are reset to zero exactly at
\* every N-th tick since start, never earlier and never later; the periodic
\* report line is logged at such a tick only if a file was transferred since
\* the previous reset, and at no other tick.
C7_ResetEveryNthTick ==
    [][CycleEnds =>
        LET due == totalRuns' % WindowTicks = 0 IN
        /\ (resets' = resets + 1) <=> due
        /\ resets' \in {resets, resets + 1}
        /\ due => accumulatedSummary' = ZeroSummary /\ runCounter' = 0
        /\ ~due => runCounter' = runCounter + 1
        /\ (periodicLogs' = periodicLogs + 1)
              <=> (due /\ session'.FilesTransferred > atReset.FilesTransferred)
        /\ periodicLogs' \in {periodicLogs, periodicLogs + 1}]_vars

\* two windows of two ticks have ended, one reported and one silent
C7_Witness ==
    /\ WindowTicks = 2
    /\ resets = 2
    /\ periodicLogs = 1
    /\ runCounter = 0
    /\ accumulatedSummary = ZeroSummary

\* C8: the totals reported at shutdown (final summary line and session
\* metrics) are the sums over all runs of the session, and the run count is
\* the number of runs completed since start.
C8_ShutdownTotalsCoverSession ==
    pc = "done" =>
        \A rep \in {finalSummary, finalMetrics} :
            rep.printed =>
                /\ rep.FilesTransferred = session.FilesTransferred
                /\ rep.FilesDeleted = session.FilesDeleted
                /\ rep.TotalBytes = session.TotalBytes
                /\ rep.FilesFailed = session.FilesFailed
                /\ rep.Runs = totalRuns

\* what the runs since the last periodic reset returned, from the history
SinceReset ==
    [printed |-> TRUE,
     FilesTransferred |-> session.FilesTransferred - atReset.FilesTransferred,
     FilesDeleted |-> session.FilesDeleted - atReset.FilesDeleted,
     TotalBytes |-> session.TotalBytes - atReset.TotalBytes,
     FilesFailed |-> session.FilesFailed - atReset.FilesFailed,
     Runs |-> totalRuns - resets * WindowTicks]

C13_CyclesDoNotOverlap ==
    /\ started - totalRuns \in {0, 1}
    /\ (pc = "running" <=> started = totalRuns + 1)

\* the second cycle is executing, the first is complete, and the next tick
\* has already arrived
C13_Witness ==
    /\ pc = "running"
    /\ tickPending
    /\ started = 2
    /\ totalRuns = 1

\* C14: a cycle that ends with an error (the tool failed and its output is not
\* the no-match envelope, or the sink could not be made or read) does not end
\* the loop: it adds nothing to the accumulator or to the session totals, the
\* loop is back at select with the process running, and only the shutdown
\* branch, taken after a termination request, ends the loop.
C14_FailedCycleKeepsLoop ==
    [][ /\ (CycleEnds /\ ret'.err) =>
            /\ exitCode' = -1
            /\ session' = session
            /\ totalRuns' = totalRuns + 1
            /\ accumulatedSummary' =
                   IF runCounter + 1 >= WindowTicks THEN ZeroSummary
                   ELSE accumulatedSummary
        /\ (pc' = "done" /\ pc # "done") => (cancelled /\ ShutsDown)
      ]_vars

\* a cycle is executing after one that failed with transferred files on the
\* accumulator, no termination requested
C14_Witness ==
    /\ pc = "running"
    /\ ret.err
    /\ totalRuns >= 2
    /\ started = totalRuns + 1
    /\ accumulatedSummary.FilesTransferred > 0
    /\ ~cancelled
    /\ exitCode = -1

\* the number of times p occurs in the list f
Occurrences(f, p) == Cardinality({k \in DOMAIN f : f[k] = p})

\* C15 as stated: folding A, B, C in any order, and in either grouping, yields
\* identical totals: FilesTransferred, FilesDeleted, TotalBytes and the
\* failed-deletions list.
C15_Original ==
    pc = "folded" =>
        /\ \A o1, o2 \in Orders : folds.byOrder[o1] = folds.byOrder[o2]
        /\ folds.grouped = folds.byOrder[<<1, 2, 3>>]

\* C15 (amended): folding A, B, C in any order yields identical
\* FilesTransferred, FilesDeleted, TotalBytes and number of failed deletions,
\* and failed-deletions lists that hold the same paths the same number of
\* times (in the order of the fold); either grouping of one order yields the
\* same accumulator, list included.
C15_FoldOrderIrrelevantForCounts ==
    pc = "folded" =>
        /\ \A o1, o2 \in Orders :
              LET x == folds.byOrder[o1]
                  y == folds.byOrder[o2]
              IN  /\ x.FilesTransferred = y.FilesTransferred
                  /\ x.FilesDeleted = y.FilesDeleted
                  /\ x.TotalBytes = y.TotalBytes
                  /\ Len(x.FilesFailed) = Len(y.FilesFailed)
                  /\ \A p \in Paths :
                        Occurrences(x.FilesFailed, p) = Occurrences(y.FilesFailed, p)
        /\ folds.grouped = folds.byOrder[<<1, 2, 3>>]
        /\ folds.grouped.FilesTransferred =
               operands[1].FilesTransferred + operands[2].FilesTransferred
               + operands[3].FilesTransferred
        /\ folds.grouped.TotalBytes =
               operands[1].TotalBytes + operands[2].TotalBytes + operands[3].TotalBytes

\* two runs failed to delete different files: the lists of two fold orders
\* differ, the counts do not
C15_Witness ==
    /\ pc = "folded"
    /\ operands[1].FilesFailed = <<"/tmp/a.gz">>
    /\ operands[2].FilesFailed = <<"/var/b.gz">>
    /\ operands[3].TotalBytes = 1024
    /\ folds.byOrder[<<1, 2, 3>>].FilesFailed # folds.byOrder[<<2, 1, 3>>].FilesFailed
    /\ folds.byOrder[<<1, 2, 3>>].FilesTransferred = folds.byOrder[<<2, 1, 3>>].FilesTransferred

-----------------------------------------------------------------------------
(* Properties of startup and of the tool's command (SpecStart) *)

\* no destination was given, by flag or by environment
DestinationMissing == conf.flagBucket = "" /\ conf.envBucket = ""

\* neither a credentials file nor all three credential variables were given
CredentialsMissing ==
    /\ conf.flagCreds = "" /\ conf.envCreds = ""
    /\ conf.awsEnv # CredVars

\* C16: when the destination is missing, or neither a credentials file nor the
\* complete set of three credential variables is given, the process stops at
\* startup: the loop is never entered, no subprocess is invoked and no file is
\* deleted.
C16_FatalAtStartup ==
    (DestinationMissing \/ CredentialsMissing) =>
        /\ pc \in {"start", "fatal"}
        /\ (pc = "fatal" => exitCode = 1)
        /\ started = 0 /\ totalRuns = 0
        /\ ~cmd.built
        /\ exists = Paths /\ removed = {}
        /\ ~cancelled /\ ~tickPending

\* stopped with a destination, no credentials file and two of the three variables
C16_Witness ==
    /\ pc = "fatal"
    /\ exitCode = 1
    /\ ~DestinationMissing
    /\ conf.awsEnv = {"AWS_ACCESS_KEY_ID", "AWS_SECRET_ACCESS_KEY"}
    /\ CredentialsMissing
    /\ ~cmd.built

\* C17: for every option given both by flag and by environment variable, with
\* different values, the value of the flag is the one used.
C17_FlagTakesPrecedence ==
    pc # "start" =>
        /\ (conf.flagBucket # "" /\ conf.envBucket # "" /\ conf.flagBucket # conf.envBucket)
              => actual.S3BucketPath = conf.flagBucket
        /\ (conf.flagCreds # "" /\ conf.envCreds # "" /\ conf.flagCreds # conf.envCreds)
              => actual.AwsCredsFile = conf.flagCreds

\* all three credential variables are given: environment mode
EnvMode == conf.awsEnv = CredVars

\* C18: the two credential modes exclude each other in every invocation: in
\* file mode the arguments carry the credentials file and the profile, in
\* environment mode they carry neither and the three credential variables are
\* in the environment of the child; with a credentials file and the three
\* variables both given, environment mode is used.
C18_CredentialModesExclusive ==
    cmd.built =>
        IF EnvMode
        THEN /\ "--credentials-file" \notin Range(cmd.args)
             /\ "--profile" \notin Range(cmd.args)
             /\ actual.AwsCredsFile \notin Range(cmd.args)
             /\ CredVars \subseteq cmd.env
        ELSE /\ actual.AwsCredsFile # ""
             /\ \E k \in 1..(Len(cmd.args) - 3) :
                   /\ cmd.args[k] = "--credentials-file"
                   /\ cmd.args[k + 1] = actual.AwsCredsFile
                   /\ cmd.args[k + 2] = "--profile"
                   /\ cmd.args[k + 3] = actual.AwsProfile
             /\ Cardinality({k \in 1..Len(cmd.args) : cmd.args[k] = "--credentials-file"}) = 1

\* a credentials file and the three variables were given, and the tool was
\* run without the file
C18_Witness ==
    /\ cmd.built
    /\ totalRuns = 1
    /\ EnvMode
    /\ actual.AwsCredsFile = "/etc/flag.credentials"
    /\ "--credentials-file" \notin Range(cmd.args)
    /\ cmd.env = CredVars

\* C27: at every loop decision point the accumulated summary satisfies
\* FilesDeleted + len(FilesFailed) = FilesTransferred, after any sequence of
\* successful, empty and failed runs and periodic resets.
C27_AccumulatorAccounted ==
    pc = "select" =>
        accumulatedSummary.FilesDeleted + Len(accumulatedSummary.FilesFailed)
            = accumulatedSummary.FilesTransferred

\* after a reset, the accumulator holds a run with a deletion and a run with
\* two failed deletions
C27_Witness ==
    /\ pc = "select"
    /\ resets >= 1
    /\ accumulatedSummary.FilesTransferred = 3
    /\ accumulatedSummary.FilesDeleted = 1
    /\ Len(accumulatedSummary.FilesFailed) = 2

\* C28: at every loop decision point 0 <= runCounter < runsPerLog, and
\* runCounter = 0 implies that the accumulator is all-zero; each tick
\* increments runCounter by exactly one, whatever the outcome of the run,
\* before the reset that applies when it reaches runsPerLog.
C28_RunCounterInWindow ==
    /\ [](pc = "select" =>
            /\ 0 <= runCounter /\ runCounter < WindowTicks
            /\ (runCounter = 0 => accumulatedSummary = ZeroSummary))
    /\ [][CycleEnds =>
            runCounter' = IF runCounter + 1 >= WindowTicks THEN 0 ELSE runCounter + 1]_vars

\* two ticks of a window of three are counted, the second run having failed
C28_Witness ==
    /\ pc = "select"
    /\ WindowTicks = 3
    /\ runCounter = 2
    /\ ret.err
    /\ accumulatedSummary.FilesTransferred > 0

\* C30: the files-deleted count folded into the accumulator for a cycle equals
\* the number of local files removed during that cycle, on every exit path of
\* processFiles, a read error after some records were reconciled included.
C30_DeletedCountMatchesRemovals ==
    [][CycleEnds =>
        /\ ret'.summary.FilesDeleted = Cardinality(removed')
        /\ session'.FilesDeleted = session.FilesDeleted + Cardinality(removed')]_vars

\* the pointwise sum of two Summaries, lists concatenated
SumOfSummaries(a, b) ==
    Summary(a.FilesTransferred + b.FilesTransferred, a.FilesDeleted + b.FilesDeleted,
            a.TotalBytes + b.TotalBytes, a.FilesFailed \o b.FilesFailed)

\* C23: whether the per-run or the shutdown metrics are written, fail or are
\* disabled changes nothing else: the Summary of the run is folded, the tick
\* counter incremented, the periodic line logged and the window reset when
\* due, and at shutdown the final summary is logged and the process exits
\* with status 0, all determined by the run and the accumulator alone.
C23_MetricFailureHarmless ==
    [][ /\ CycleEnds =>
            LET sum == SumOfSummaries(accumulatedSummary, ret'.summary)
                due == runCounter + 1 >= WindowTicks
            IN  /\ accumulatedSummary' = IF due THEN ZeroSummary ELSE sum
                /\ runCounter' = IF due THEN 0 ELSE runCounter + 1
                /\ periodicLogs' = IF due /\ sum.FilesTransferred > 0
                                   THEN periodicLogs + 1 ELSE periodicLogs
                /\ exitCode' = -1
        /\ ShutsDown =>
            /\ finalSummary'.printed
                  <=> (accumulatedSummary.FilesTransferred > 0 \/ runCounter > 0)
            /\ finalSummary'.printed =>
                  /\ finalSummary'.FilesTransferred = accumulatedSummary.FilesTransferred
                  /\ finalSummary'.Runs = runCounter
            /\ exitCode' = 0
      ]_vars

\* metrics are enabled, neither the metrics of the last run nor the final
\* metrics could be sent, and the run was folded and the final summary logged
C23_Witness ==
    /\ pc = "done"
    /\ netdataEnabled
    /\ runMetrics = NoReport
    /\ finalMetrics = NoReport
    /\ ret.summary.FilesTransferred > 0
    /\ finalSummary.printed
    /\ finalSummary.FilesTransferred >= ret.summary.FilesTransferred
    /\ finalSummary.Runs >= 1
    /\ exitCode = 0

\* C24: within a cycle the tool has exited before the first line of the sink
\* is read, every removal of a local file comes after the reading of a record
\* that reports that file as successfully copied, and the fold into the
\* accumulator comes after the last removal attempt of the cycle.
C24_CycleStepsOrdered ==
    /\ \A j \in 1..Len(events) :
          /\ events[j].ev \in {"read", "classify"} =>
                \E h \in 1..(j - 1) : events[h].ev = "exit"
          /\ events[j].ev = "remove" =>
                \E h \in 1..(j - 1) :
                    /\ events[h].ev = "read"
                    /\ CopiedFileLine(events[h].line)
                    /\ events[h].line.source = events[j].path
          /\ events[j].ev = "fold" => j = Len(events)
    /\ (pc = "select" /\ totalRuns > 0) =>
          /\ events # <<>>
          /\ events[Len(events)].ev = "fold"
    /\ pc \in {"select", "done"} =>
          \A f \in removed :
              \E j \in 1..Len(events) : events[j].ev = "remove" /\ events[j].path = f

\* a cycle in which the tool exited, the record of /tmp/a.gz was read, the
\* file was removed and the Summary was folded
C24_Witness ==
    /\ pc = "select"
    /\ removed = {"/tmp/a.gz"}
    /\ Len(events) = 4
    /\ events[1].ev = "exit"
    /\ events[2].ev = "read"
    /\ events[3] = [ev |-> "remove", path |-> "/tmp/a.gz"]
    /\ events[4].ev = "fold"
    /\ accumulatedSummary.FilesDeleted >= 1

-----------------------------------------------------------------------------
(* Properties of the source glob (SpecSrc) *)

\* the names between the separators of p from position k on, cur being the
\* name in progress
RECURSIVE Segments(_, _, _)
Segments(p, k, cur) ==
    IF k > Len(p) THEN (IF cur = <<>> THEN <<>> ELSE <<cur>>)
    ELSE IF p[k] = "/"
    THEN (IF cur = <<>> THEN <<>> ELSE <<cur>>) \o Segments(p, k + 1, <<>>)
    ELSE Segments(p, k + 1, Append(cur, p[k]))

\* C22: a suffix that begins with '/' has exactly one leading separator
\* stripped before it is joined to the source root, a suffix without a leading
\* separator is joined unchanged, and the joined path has no double
\* separators: its names are those of the root followed by those of the
\* suffix.
C22_SuffixNormalized ==
    pc = "built" =>
        LET pre == pathArgs.folderPrefix
            suf == pathArgs.pathSuffix
            st == srcPath.stripped
            src == srcPath.src
        IN  /\ (suf # <<>> /\ suf[1] = "/") => st = SubSeq(suf, 2, Len(suf))
            /\ (suf = <<>> \/ suf[1] # "/") => st = suf
            /\ \A k \in 1..(Len(src) - 1) : ~(src[k] = "/" /\ src[k + 1] = "/")
            /\ Segments(src, 1, <<>>) = Segments(pre, 1, <<>>) \o Segments(st, 1, <<>>)
            /\ pre # <<>> => (src[1] = "/" <=> pre[1] = "/")
            /\ (pre = <<>> /\ st # <<>>) => (src[1] = "/" <=> st[1] = "/")
            /\ (pre = <<>> /\ st = <<>>) => src = <<>>

\* the root "/d/" and the suffix "//d": one separator is stripped and the
\* path is "/d/d"
C22_Witness ==
    /\ pc = "built"
    /\ pathArgs.folderPrefix = <<"/", "d", "/">>
    /\ pathArgs.pathSuffix = <<"/", "/", "d">>
    /\ srcPath.stripped = <<"/", "d">>
    /\ srcPath.src = <<"/", "d", "/", "d">>

====
